---- MODULE Spec2Model ----
(***************************************************************************)
(* A model of the solar flux heat map of ritwikleads/backend-vercel:        *)
(*   - the Flux Renderer, src/components/SolarFluxMap.tsx                   *)
(*     (fetchAndRenderTiff: identifier extraction, acquisition, decode,     *)
(*     range computation, colour mapping, surface composition);             *)
(*   - the Raster Proxy, src/app/api/getFluxData/route.ts (GET).            *)
(***************************************************************************)
EXTENDS Integers, Sequences, FiniteSets, TLC

(***************************************************************************)
(* Bounds of the model.                                                     *)
(***************************************************************************)
\* samples are NaN or integers in -1 .. MaxVal
MaxVal == 5
\* a raster holds at most MaxSamples samples (width * height <= MaxSamples)
MaxSamples == 3
\* number of requests the proxy handles in one behaviour
MaxReqs == 2
\* number of times the effect of SolarFluxMap runs in one behaviour
MaxRenders == 2
\* number of financial analyses in a buildingInsights response
MaxAnalyses == 3

(***************************************************************************)
(* JavaScript numbers.  A number is NaN, +Infinity, -Infinity or a finite   *)
(* value n/d (d > 0).  Within the bounds of the model every finite value    *)
(* is a quotient of integers below 2^11, where IEEE-754 double arithmetic   *)
(* and Math.round agree with the exact rational arithmetic used here (the   *)
(* only halves, 127.5 = 255 * 0.5, are computed exactly in binary).         *)
(***************************************************************************)
Rat(a, b) == [k |-> "fin", n |-> a, d |-> b]
Num(i) == Rat(i, 1)
NaN == [k |-> "nan", n |-> 0, d |-> 1]
PInf == [k |-> "pinf", n |-> 0, d |-> 1]
NInf == [k |-> "ninf", n |-> 0, d |-> 1]

IsFin(x) == x.k = "fin"
IsNaN(x) == x.k = "nan"
\* -1, 0 or 1: the sign of a number that is not NaN
Sign(x) ==
  CASE x.k = "pinf" -> 1
    [] x.k = "ninf" -> -1
    [] OTHER -> IF x.n > 0 THEN 1 ELSE IF x.n < 0 THEN -1 ELSE 0
InfOf(s) == IF s > 0 THEN PInf ELSE NInf

\* x < y as JavaScript evaluates it: false when either side is NaN
Lt(x, y) ==
  /\ ~IsNaN(x)
  /\ ~IsNaN(y)
  /\ CASE x.k = "pinf" -> FALSE
       [] x.k = "ninf" -> y.k # "ninf"
       [] y.k = "pinf" -> TRUE
       [] y.k = "ninf" -> FALSE
       [] OTHER -> x.n * y.d < y.n * x.d
Gt(x, y) == Lt(y, x)
\* x <= y as JavaScript evaluates it: false when either side is NaN
Le(x, y) == ~IsNaN(x) /\ ~IsNaN(y) /\ ~Lt(y, x)

\* Math.min(a, b), Math.max(a, b)
MathMin(a, b) == IF IsNaN(a) \/ IsNaN(b) THEN NaN ELSE IF Lt(b, a) THEN b ELSE a
MathMax(a, b) == IF IsNaN(a) \/ IsNaN(b) THEN NaN ELSE IF Lt(a, b) THEN b ELSE a

\* a - b
Sub(a, b) ==
  CASE IsNaN(a) \/ IsNaN(b) -> NaN
    [] IsFin(a) /\ IsFin(b) -> Rat(a.n * b.d - b.n * a.d, a.d * b.d)
    [] IsFin(a) -> InfOf(-Sign(b))
    [] IsFin(b) -> a
    [] OTHER -> IF a.k = b.k THEN NaN ELSE a

\* a * b
Mul(a, b) ==
  CASE IsNaN(a) \/ IsNaN(b) -> NaN
    [] IsFin(a) /\ IsFin(b) -> Rat(a.n * b.n, a.d * b.d)
    [] OTHER -> IF Sign(a) * Sign(b) = 0 THEN NaN ELSE InfOf(Sign(a) * Sign(b))

\* a / b
Div(a, b) ==
  CASE IsNaN(a) \/ IsNaN(b) -> NaN
    [] IsFin(a) /\ IsFin(b) ->
         IF b.n = 0
         THEN (IF a.n = 0 THEN NaN ELSE InfOf(Sign(a)))
         ELSE (IF b.n > 0 THEN Rat(a.n * b.d, a.d * b.n)
                          ELSE Rat(-(a.n * b.d), -(a.d * b.n)))
    [] IsFin(a) -> Num(0)
    [] IsFin(b) -> InfOf(Sign(a) * (IF b.n < 0 THEN -1 ELSE 1))
    [] OTHER -> NaN

\* a variant of MathRound: Math.floor in its place
MathRound_Floor(x) ==
  IF IsFin(x) THEN Num(x.n \div x.d) ELSE x

\* Math.round(x): the nearest integer, halves towards +Infinity
MathRound(x) ==
  IF IsFin(x) THEN Num((2 * x.n + x.d) \div (2 * x.d)) ELSE x

\* a variant of ToUint8Clamp: a plain array, which stores NaN (here -1) as it is
ToUint8Clamp_PlainArray(x) ==
  IF IsFin(x) THEN x.n \div x.d ELSE -1

\* the conversion of a number stored into a Uint8ClampedArray element:
\* NaN becomes 0, the value is clamped to 0 .. 255 and rounded, halves to even
ToUint8Clamp(x) ==
  CASE IsNaN(x) -> 0
    [] x.k = "pinf" -> 255
    [] x.k = "ninf" -> 0
    [] OTHER ->
         LET f == x.n \div x.d
             r2 == 2 * (x.n - f * x.d)
             q == IF r2 < x.d THEN f
                  ELSE IF r2 > x.d THEN f + 1
                  ELSE IF f % 2 = 0 THEN f ELSE f + 1
         IN IF q < 0 THEN 0 ELSE IF q > 255 THEN 255 ELSE q

(***************************************************************************)
(* Rasters: the decoded first band of a GeoTIFF, row-major, with            *)
(* samples.length = width * height.                                         *)
(***************************************************************************)
SampleValues == {NaN} \cup {Num(i) : i \in -1 .. MaxVal}
Shapes == {s \in (1 .. MaxSamples) \X (1 .. MaxSamples) : s[1] * s[2] <= MaxSamples}
RastersOf(s) ==
  {[width |-> s[1], height |-> s[2], samples |-> f] :
     f \in [1 .. s[1] * s[2] -> SampleValues]}
Rasters == UNION {RastersOf(s) : s \in Shapes}
NoRaster == [width |-> 0, height |-> 0, samples |-> <<>>]

(***************************************************************************)
(* Range computation, colour mapping and surface composition: the           *)
(* synchronous tail of fetchAndRenderTiff.                                  *)
(***************************************************************************)
\* a variant of IsData: the test  value >= 0
IsData_NonNegative(value) == Gt(value, Num(-1))

\* the test  value > 0  of the range scan and of the alpha channel
IsData(value) == Gt(value, Num(0))

\* the scan  for (i = 0; i < raster.length; i++)  from sample i on
RECURSIVE RangeScan(_, _, _, _)
RangeScan(raster, i, min, max) ==
  IF i > Len(raster) THEN [min |-> min, max |-> max]
  ELSE LET value == raster[i]
       IN IF IsData(value)
          THEN RangeScan(raster, i + 1, MathMin(min, value), MathMax(max, value))
          ELSE RangeScan(raster, i + 1, min, max)

\* let min = Infinity; let max = -Infinity; followed by the scan
ComputeRange(raster) == RangeScan(raster, 1, PInf, NInf)

\* a variant of getColor: the blue channel of the lower segment not inverted
getColor_BlueNotInverted(value, min, max) ==
  IF Le(value, Num(0)) THEN <<Num(0), Num(0), Num(0)>>
  ELSE LET normalized == Div(Sub(value, min), Sub(max, min))
       IN IF Lt(normalized, Rat(1, 2))
          THEN LET t == Mul(normalized, Num(2))
               IN <<MathRound(Mul(Num(255), t)),
                    MathRound(Mul(Num(255), t)),
                    MathRound(Mul(Num(255), t))>>
          ELSE LET t == Mul(Sub(normalized, Rat(1, 2)), Num(2))
               IN <<Num(255),
                    MathRound(Mul(Num(255), Sub(Num(1), t))),
                    Num(0)>>

\* a variant of getColor: without the early return for value <= 0
getColor_NoGuard(value, min, max) ==
  LET normalized == Div(Sub(value, min), Sub(max, min))
  IN IF Lt(normalized, Rat(1, 2))
     THEN LET t == Mul(normalized, Num(2))
          IN <<MathRound(Mul(Num(255), t)),
               MathRound(Mul(Num(255), t)),
               MathRound(Mul(Num(255), Sub(Num(1), t)))>>
     ELSE LET t == Mul(Sub(normalized, Rat(1, 2)), Num(2))
          IN <<Num(255),
               MathRound(Mul(Num(255), Sub(Num(1), t))),
               Num(0)>>

\* a variant of Normalized: the range taken as min - max
Normalized_RangeReversed(value, min, max) == Div(Sub(value, min), Sub(min, max))

\* const normalized = (value - min) / (max - min)
Normalized(value, min, max) == Div(Sub(value, min), Sub(max, min))

\* getColor(value) with the min and max it closes over: three JavaScript numbers
getColor(value, min, max) ==
  IF Le(value, Num(0)) THEN <<Num(0), Num(0), Num(0)>>
  ELSE LET normalized == Normalized(value, min, max)
       IN IF Lt(normalized, Rat(1, 2))
          THEN LET t == Mul(normalized, Num(2))
               IN <<MathRound(Mul(Num(255), t)),
                    MathRound(Mul(Num(255), t)),
                    MathRound(Mul(Num(255), Sub(Num(1), t)))>>
          ELSE LET t == Mul(Sub(normalized, Rat(1, 2)), Num(2))
               IN <<Num(255),
                    MathRound(Mul(Num(255), Sub(Num(1), t))),
                    Num(0)>>

\* a variant of Alpha: every pixel opaque
Alpha_Opaque(value) == Num(255)

\* value > 0 ? 255 : 0
Alpha(value) == IF IsData(value) THEN Num(255) ELSE Num(0)

\* a variant of FillImageData: the rows are written from the last sample to
\* the first
FillImageData_Mirrored(raster, width, height) ==
  LET range == ComputeRange(raster)
      n == Len(raster)
  IN [j \in 1 .. 4 * width * height |->
        LET i == (j - 1) \div 4
            c == (j - 1) % 4
        IN IF i + 1 > n THEN 0
           ELSE IF c = 3 THEN ToUint8Clamp(Alpha(raster[n - i]))
           ELSE ToUint8Clamp(getColor(raster[n - i], range.min, range.max)[c + 1])]

\* ctx.createImageData(width, height) filled by the loop over the raster: a
\* Uint8ClampedArray of 4 * width * height elements, zero where nothing is
\* written; a write past the end of the array is ignored
FillImageData(raster, width, height) ==
  LET range == ComputeRange(raster)
  IN [j \in 1 .. 4 * width * height |->
        LET i == (j - 1) \div 4
            c == (j - 1) % 4
        IN IF i + 1 > Len(raster) THEN 0
           ELSE IF c = 3 THEN ToUint8Clamp(Alpha(raster[i + 1]))
           ELSE ToUint8Clamp(getColor(raster[i + 1], range.min, range.max)[c + 1])]

(***************************************************************************)
(* State.                                                                   *)
(***************************************************************************)
VARIABLES
  annualFluxUrl,  \* SolarFluxMap: the prop the last effect ran with
  loading,        \* SolarFluxMap: useState(true)
  error,          \* SolarFluxMap: useState(null), a message or Null
  tiffId,         \* SolarFluxMap: useState(null), an identifier or NoId
  canvas,         \* SolarFluxMap: the canvas element behind canvasRef
  renders,        \* SolarFluxMap: the calls of fetchAndRenderTiff, in order
  fetches,        \* SolarFluxMap: the requests sent to /api/getFluxData, in order
  lastCompleted,  \* SolarFluxMap: the call that returned last (0: none yet)
  apiKey,         \* route.ts: process.env.NEXT_PUBLIC_GOOGLE_SOLAR_API_KEY
  reqs,           \* route.ts: the calls of GET, in order
  outbound,       \* route.ts: the upstream requests issued, in order
  logged,         \* route.ts: the lines written with console.error, in order
  googleApiKey,   \* server.js: process.env.GOOGLE_API_KEY
  posts,          \* server.js: the calls of the handler of POST /, in order
  tmpdir          \* server.js: the report files present in os.tmpdir()

vars ==
  <<annualFluxUrl, loading, error, tiffId, canvas, renders, fetches, lastCompleted,
    apiKey, reqs, outbound, logged, googleApiKey, posts, tmpdir>>
rendererVars ==
  <<annualFluxUrl, loading, error, tiffId, canvas, renders, fetches, lastCompleted>>
proxyVars == <<apiKey, reqs, outbound, logged>>
serverVars == <<googleApiKey, posts, tmpdir>>

(***************************************************************************)
(* Strings, URLs and thrown values.                                         *)
(***************************************************************************)
\* null where a string is expected (URLSearchParams.get, useState(null))
NoId == "<null>"
\* a message is a template literal, the tuple of its parts; Null is no message
Null == <<>>
\* !s for a string or null
Falsy(s) == s = NoId \/ s = ""

\* a URL string: "", a string new URL() rejects, or an absolute URL whose
\* query is a sequence of <<name, value>> pairs
EmptyUrl == [kind |-> "empty", query |-> <<>>]
InvalidUrl == [kind |-> "invalid", query |-> <<>>]
UrlWith(query) == [kind |-> "url", query |-> query]
Unmounted == [kind |-> "unmounted", query |-> <<>>]
Urls ==
  { EmptyUrl, InvalidUrl,
    UrlWith(<< >>),
    UrlWith(<< <<"id", "">> >>),
    UrlWith(<< <<"id", "a">> >>),
    UrlWith(<< <<"key", "k">>, <<"id", "b">> >>),
    UrlWith(<< <<"id", "b">>, <<"id", "a">> >>) }

\* URLSearchParams.get(name): the value of the first pair named name, or null
RECURSIVE SearchParamsGet(_, _)
SearchParamsGet(query, name) ==
  IF query = <<>> THEN NoId
  ELSE IF Head(query)[1] = name THEN Head(query)[2]
  ELSE SearchParamsGet(Tail(query), name)

\* a thrown value: an Error with a message, or something that is no Error
ErrorOf(message) == [isError |-> TRUE, message |-> message]
NonError == [isError |-> FALSE, message |-> Null]
\* what an awaited library call (fetch, arrayBuffer, geotiff) may reject with
Rejections == {ErrorOf(<<"library error">>), NonError}

\* response.ok
Ok(status) == 200 <= status /\ status <= 299

(***************************************************************************)
(* The Flux Renderer: SolarFluxMap and its effect fetchAndRenderTiff.       *)
(***************************************************************************)
\* the canvas element: its size and its bitmap; blank is a bitmap of
\* transparent black that is not spelled out
DefaultCanvas == [width |-> 300, height |-> 150, blank |-> TRUE, data |-> <<>>]
\* canvas.width = width; canvas.height = height: the bitmap is reset
ResizeCanvas(width, height) ==
  [width |-> width, height |-> height, blank |-> TRUE, data |-> <<>>]
\* ctx.putImageData(imageData, 0, 0) on a canvas of the image's size
PutImageData(c, data) == [c EXCEPT !.blank = FALSE, !.data = data]

\* statuses the renderer's call of /api/getFluxData may come back with
FetchStatuses == {200, 400, 404, 500}

Render(pc, url, id, raster) == [pc |-> pc, url |-> url, id |-> id, raster |-> raster]
InFlight(r) == renders[r].pc \in {"fetch", "arrayBuffer", "fromArrayBuffer", "getImage", "readRasters"}

\* a variant of Catch: without setLoading(false)
Catch_LoadingLeftOn(r, thrown) ==
  /\ error' = IF thrown.isError THEN thrown.message ELSE <<"Unknown error">>
  /\ UNCHANGED loading
  /\ renders' = [renders EXCEPT ![r].pc = "failed"]
  /\ lastCompleted' = r

\* catch (err): setError(err instanceof Error ? err.message : 'Unknown error');
\* setLoading(false)
CatchMessage(thrown) == IF thrown.isError THEN thrown.message ELSE <<"Unknown error">>
Catch(r, thrown) ==
  /\ error' = CatchMessage(thrown)
  /\ loading' = FALSE
  /\ renders' = [renders EXCEPT ![r].pc = "failed"]
  /\ lastCompleted' = r

\* a variant of NoIdExtracted: only a missing parameter, not an empty one
NoIdExtracted_NullOnly(id) == id = NoId

\* if (!id) throw new Error('Could not extract ID from annualFluxUrl')
NoIdExtracted(id) == Falsy(id)

\* the effect of [annualFluxUrl]: fetchAndRenderTiff up to its first await
UseEffect(url, limit) ==
  /\ Len(renders) < limit
  /\ url # annualFluxUrl
  /\ annualFluxUrl' = url
  /\ UNCHANGED <<canvas, proxyVars, serverVars>>
  /\ LET r == Len(renders) + 1
         id == SearchParamsGet(url.query, "id")
     IN IF url.kind = "empty"
        THEN \* if (!annualFluxUrl || !canvasRef.current) return
             /\ renders' = Append(renders, Render("returned", url, NoId, NoRaster))
             /\ lastCompleted' = r
             /\ UNCHANGED <<loading, error, tiffId, fetches>>
        ELSE IF url.kind = "invalid"
        THEN \* setLoading(true); new URL() throws a TypeError
             /\ renders' = Append(renders, Render("failed", url, NoId, NoRaster))
             /\ error' = <<"Invalid URL">>
             /\ loading' = FALSE
             /\ lastCompleted' = r
             /\ UNCHANGED <<tiffId, fetches>>
        ELSE IF NoIdExtracted(id)
        THEN /\ renders' = Append(renders, Render("failed", url, id, NoRaster))
             /\ error' = <<"Could not extract ID from annualFluxUrl">>
             /\ loading' = FALSE
             /\ lastCompleted' = r
             /\ UNCHANGED <<tiffId, fetches>>
        ELSE \* setLoading(true); setTiffId(id); fetch(`/api/getFluxData?id=${id}`)
             /\ renders' = Append(renders, Render("fetch", url, id, NoRaster))
             /\ loading' = TRUE
             /\ tiffId' = id
             /\ fetches' = Append(fetches, [render |-> r, id |-> id])
             /\ UNCHANGED <<error, lastCompleted>>

\* await fetch(...) resolves; if (!response.ok) throw
FetchResolve(r, status) ==
  /\ r \in DOMAIN renders
  /\ renders[r].pc = "fetch"
  /\ IF Ok(status)
     THEN /\ renders' = [renders EXCEPT ![r].pc = "arrayBuffer"]
          /\ UNCHANGED <<loading, error, lastCompleted>>
     ELSE Catch(r, ErrorOf(<<"Failed to fetch flux data: ", status>>))
  /\ UNCHANGED <<annualFluxUrl, tiffId, canvas, fetches, proxyVars, serverVars>>

\* an await other than the last resolves: the next call is made
AwaitResolve(r, from, to) ==
  /\ r \in DOMAIN renders
  /\ renders[r].pc = from
  /\ renders' = [renders EXCEPT ![r].pc = to]
  /\ UNCHANGED <<annualFluxUrl, loading, error, tiffId, canvas, fetches, lastCompleted, proxyVars, serverVars>>

\* a variant of ArrayBufferResolve: the decoder is called while the fetch is
\* still pending
ArrayBufferResolve_NotAwaited(r) == AwaitResolve(r, "fetch", "fromArrayBuffer")

\* await response.arrayBuffer()
ArrayBufferResolve(r) == AwaitResolve(r, "arrayBuffer", "fromArrayBuffer")
\* await GeoTIFF.fromArrayBuffer(arrayBuffer)
FromArrayBufferResolve(r) == AwaitResolve(r, "fromArrayBuffer", "getImage")
\* await tiff.getImage(); image.getWidth(); image.getHeight(); image.readRasters()
GetImageResolve(r) == AwaitResolve(r, "getImage", "readRasters")

\* any of the awaits rejects: the catch block runs
AwaitReject(r, thrown) ==
  /\ r \in DOMAIN renders
  /\ InFlight(r)
  /\ Catch(r, thrown)
  /\ UNCHANGED <<annualFluxUrl, tiffId, canvas, fetches, proxyVars, serverVars>>

\* a variant of RenderTail: min and max are kept from the call that returned
\* last instead of starting at Infinity and -Infinity
RenderTail_KeepsRange(r, raster, ctxOk) ==
  LET prev == IF lastCompleted = 0 THEN <<>> ELSE renders[lastCompleted].raster.samples
      all == FillImageData(prev \o raster.samples, Len(prev) + Len(raster.samples), 1)
      data == SubSeq(all, 4 * Len(prev) + 1, Len(all))
  IN /\ canvas' = IF ctxOk
                  THEN PutImageData(ResizeCanvas(raster.width, raster.height), data)
                  ELSE ResizeCanvas(raster.width, raster.height)
     /\ loading' = FALSE
     /\ error' = IF ctxOk THEN error ELSE <<"Could not get canvas context">>
     /\ renders' = [renders EXCEPT ![r].pc = IF ctxOk THEN "done" ELSE "failed",
                                   ![r].raster = raster]
     /\ lastCompleted' = r
     /\ UNCHANGED <<annualFluxUrl, tiffId, fetches, proxyVars, serverVars>>

\* a variant of RenderTail: a call that is not the latest leaves the canvas
\* and the state alone
RenderTail_DiscardStale(r, raster, ctxOk) ==
  /\ IF r # Len(renders)
     THEN /\ renders' = [renders EXCEPT ![r].pc = "done", ![r].raster = raster]
          /\ UNCHANGED <<canvas, loading, error>>
     ELSE IF ctxOk
     THEN /\ canvas' = PutImageData(ResizeCanvas(raster.width, raster.height),
                                    FillImageData(raster.samples, raster.width, raster.height))
          /\ loading' = FALSE
          /\ renders' = [renders EXCEPT ![r].pc = "done", ![r].raster = raster]
          /\ UNCHANGED error
     ELSE /\ canvas' = ResizeCanvas(raster.width, raster.height)
          /\ error' = <<"Could not get canvas context">>
          /\ loading' = FALSE
          /\ renders' = [renders EXCEPT ![r].pc = "failed", ![r].raster = raster]
  /\ lastCompleted' = r
  /\ UNCHANGED <<annualFluxUrl, tiffId, fetches, proxyVars, serverVars>>

\* a variant of RenderTail: the image is put on the canvas before the context
\* is tested
RenderTail_PaintFirst(r, raster, ctxOk) ==
  /\ canvas' = PutImageData(ResizeCanvas(raster.width, raster.height),
                            FillImageData(raster.samples, raster.width, raster.height))
  /\ loading' = FALSE
  /\ error' = IF ctxOk THEN error ELSE <<"Could not get canvas context">>
  /\ renders' = [renders EXCEPT ![r].pc = IF ctxOk THEN "done" ELSE "failed",
                                ![r].raster = raster]
  /\ lastCompleted' = r
  /\ UNCHANGED <<annualFluxUrl, tiffId, fetches, proxyVars, serverVars>>

\* await image.readRasters() resolves with the band `raster` of an image of
\* raster.width x raster.height: the rest of fetchAndRenderTiff runs to its
\* end; ctxOk is whether canvas.getContext('2d') returns a context
RenderTail(r, raster, ctxOk) ==
  /\ IF ctxOk
     THEN /\ canvas' = PutImageData(ResizeCanvas(raster.width, raster.height),
                                    FillImageData(raster.samples, raster.width, raster.height))
          /\ loading' = FALSE
          /\ renders' = [renders EXCEPT ![r].pc = "done", ![r].raster = raster]
          /\ UNCHANGED error
     ELSE /\ canvas' = ResizeCanvas(raster.width, raster.height)
          /\ error' = <<"Could not get canvas context">>
          /\ loading' = FALSE
          /\ renders' = [renders EXCEPT ![r].pc = "failed", ![r].raster = raster]
  /\ lastCompleted' = r
  /\ UNCHANGED <<annualFluxUrl, tiffId, fetches, proxyVars, serverVars>>

\* the last await resolves with a raster of `pool`, the rasters the bytes
\* received may decode to
ReadRastersResolve(r, pool) ==
  /\ r \in DOMAIN renders
  /\ renders[r].pc = "readRasters"
  /\ \E raster \in pool, ctxOk \in BOOLEAN : RenderTail(r, raster, ctxOk)

\* what the component displays: the loading overlay, the error box, the
\* canvas (style display), the legend and the download button
LoadingShown == loading
ErrorShown == error # Null
CanvasDisplayed == ~loading
LegendShown == ~loading /\ error = Null
DownloadShown == ~loading /\ error = Null /\ ~Falsy(tiffId)

InitRenderer ==
  /\ annualFluxUrl = Unmounted
  /\ loading = TRUE
  /\ error = Null
  /\ tiffId = NoId
  /\ canvas = DefaultCanvas
  /\ renders = <<>>
  /\ fetches = <<>>
  /\ lastCompleted = 0

InitProxyIdle ==
  /\ apiKey = NoId
  /\ reqs = <<>>
  /\ outbound = <<>>
  /\ logged = <<>>

(***************************************************************************)
(* SpecColor: one render of any raster of the bounded domain.               *)
(***************************************************************************)
InitServerIdle ==
  /\ googleApiKey = NoId
  /\ posts = <<>>
  /\ tmpdir = {}

InitColor == InitRenderer /\ InitProxyIdle /\ InitServerIdle

NextColor ==
  \/ \E url \in Urls : UseEffect(url, 1)
  \/ \E r \in DOMAIN renders, status \in FetchStatuses : FetchResolve(r, status)
  \/ \E r \in DOMAIN renders : ArrayBufferResolve(r)
  \/ \E r \in DOMAIN renders : FromArrayBufferResolve(r)
  \/ \E r \in DOMAIN renders : GetImageResolve(r)
  \/ \E r \in DOMAIN renders, thrown \in Rejections : AwaitReject(r, thrown)
  \/ \E r \in DOMAIN renders : ReadRastersResolve(r, Rasters)

SpecColor == InitColor /\ [][NextColor]_vars

(***************************************************************************)
(* Spec: the component while annualFluxUrl changes up to MaxRenders times,  *)
(* so that calls of fetchAndRenderTiff overlap.  An identifier denotes one  *)
(* raster: the bytes fetched for it always decode to the same band.         *)
(***************************************************************************)
ServedRaster(id) ==
  IF id = "a"
  THEN [width |-> 2, height |-> 1, samples |-> <<Num(1), Num(3)>>]
  ELSE [width |-> 1, height |-> 2, samples |-> <<Num(0), Num(2)>>]

Init == InitRenderer /\ InitProxyIdle /\ InitServerIdle

Next ==
  \/ \E url \in Urls : UseEffect(url, MaxRenders)
  \/ \E r \in DOMAIN renders, status \in FetchStatuses : FetchResolve(r, status)
  \/ \E r \in DOMAIN renders : ArrayBufferResolve(r)
  \/ \E r \in DOMAIN renders : FromArrayBufferResolve(r)
  \/ \E r \in DOMAIN renders : GetImageResolve(r)
  \/ \E r \in DOMAIN renders, thrown \in Rejections : AwaitReject(r, thrown)
  \/ \E r \in DOMAIN renders : ReadRastersResolve(r, {ServedRaster(renders[r].id)})

Spec == Init /\ [][Next]_vars

\* the call awaited by render r settles: it resolves or rejects
Settle(r) ==
  \/ \E status \in FetchStatuses : FetchResolve(r, status)
  \/ ArrayBufferResolve(r)
  \/ FromArrayBufferResolve(r)
  \/ GetImageResolve(r)
  \/ \E thrown \in Rejections : AwaitReject(r, thrown)
  \/ ReadRastersResolve(r, {ServedRaster(renders[r].id)})

\* Spec, when every awaited call eventually settles
SpecLive == Spec /\ \A r \in 1 .. MaxRenders : WF_vars(Settle(r))

(***************************************************************************)
(* The Raster Proxy: GET of src/app/api/getFluxData/route.ts.               *)
(***************************************************************************)
\* values of process.env.NEXT_PUBLIC_GOOGLE_SOLAR_API_KEY: unset, empty or set
Keys == {NoId, "", "K1", "K2"}
\* request.url of an incoming request
ProxyUrls ==
  { InvalidUrl,
    UrlWith(<< >>),
    UrlWith(<< <<"id", "">> >>),
    UrlWith(<< <<"id", "a">> >>),
    UrlWith(<< <<"id", "b">> >>) }
\* statuses, binary bodies and error texts the upstream service may reply with
UpstreamStatuses == {200, 204, 404, 500}
Bodies == {<<>>, <<73, 73, 42, 0>>, <<77, 77, 0, 42>>}
ErrorTexts == {"quota exceeded", "not found"}

NoBody == <<"no body">>
NoResponse ==
  [status |-> 0, contentType |-> "", contentDisposition |-> "", error |-> Null, body |-> NoBody]
\* NextResponse.json({ error: message }, { status })
JsonResponse(message, status) ==
  [status |-> status, contentType |-> "application/json", contentDisposition |-> "",
   error |-> message, body |-> NoBody]
\* a variant of TiffResponse: the bytes sent as JSON
TiffResponse_AsJson(tiffData) ==
  [status |-> 200, contentType |-> "application/json", contentDisposition |-> "",
   error |-> Null, body |-> tiffData]

\* new NextResponse(tiffData, { headers }): the status defaults to 200
TiffResponse(tiffData) ==
  [status |-> 200, contentType |-> "image/tiff",
   contentDisposition |-> "attachment; filename=\"solar-flux-data.tiff\"",
   error |-> Null, body |-> tiffData]

\* a variant of MissingId: only a missing parameter, not an empty one
MissingId_NullOnly(id) == id = NoId

\* a variant of MissingKey: only an unset variable, not an empty one
MissingKey_UnsetOnly(key) == key = NoId

\* a variant of UpstreamErrorResponse: every upstream failure answered 502
UpstreamErrorResponse_BadGateway(status) ==
  JsonResponse(<<"Failed to fetch TIFF: ", status>>, 502)

\* a variant of CatchOutcome: the exception is thrown again
CatchOutcome_Rethrow ==
  [pc |-> "escaped", response |-> NoResponse]

\* a variant of UpstreamErrorResponse: the message carries the key used
UpstreamErrorResponse_WithKey(status) ==
  JsonResponse(<<"Failed to fetch TIFF: ", status, apiKey>>, status)

\* if (!id)
MissingId(id) == Falsy(id)
\* if (!apiKey)
MissingKey(key) == Falsy(key)
\* the response of the branch  if (!response.ok)
UpstreamErrorResponse(status) == JsonResponse(<<"Failed to fetch TIFF: ", status>>, status)
\* catch (error): how the handler ends, and its response
CatchOutcome ==
  [pc |-> "responded", response |-> JsonResponse(<<"Internal server error">>, 500)]

\* a call of GET: its place, its input, what the upstream replied (status 0
\* and NoBody until known), whether something was thrown while it ran, and
\* the response it returned
Request(pc, url, id, threw, response) ==
  [pc |-> pc, url |-> url, id |-> id, upstreamStatus |-> 0, upstreamBody |-> NoBody,
   threw |-> threw, response |-> response]

\* the catch block: console.error(...) and the response
ProxyCatch(q) ==
  /\ reqs' = [reqs EXCEPT ![q].pc = CatchOutcome.pc,
                          ![q].response = CatchOutcome.response,
                          ![q].threw = TRUE]
  /\ logged' = Append(logged, <<"Error in getFluxData API route:", "error">>)

\* a variant of ProxyReceive: a TIFF already returned for the same URL is
\* answered again without a new upstream request
ProxyReceive_Cached(url) ==
  IF \E p \in DOMAIN reqs : reqs[p].url = url /\ reqs[p].response.status = 200
  THEN LET p == CHOOSE p \in DOMAIN reqs : reqs[p].url = url /\ reqs[p].response.status = 200
       IN /\ Len(reqs) < MaxReqs
          /\ reqs' = Append(reqs, Request("responded", url, reqs[p].id, FALSE, reqs[p].response))
          /\ UNCHANGED <<apiKey, outbound, logged, rendererVars, serverVars>>
  ELSE
      /\ Len(reqs) < MaxReqs
      /\ UNCHANGED <<apiKey, rendererVars, serverVars>>
      /\ LET q == Len(reqs) + 1
             id == SearchParamsGet(url.query, "id")
         IN IF url.kind # "url"
            THEN \* new URL(request.url) throws
                 /\ reqs' = Append(reqs, Request(CatchOutcome.pc, url, NoId, TRUE, CatchOutcome.response))
                 /\ logged' = Append(logged, <<"Error in getFluxData API route:", "error">>)
                 /\ UNCHANGED outbound
            ELSE IF MissingId(id)
            THEN /\ reqs' = Append(reqs, Request("responded", url, id, FALSE,
                                                 JsonResponse(<<"Missing id parameter">>, 400)))
                 /\ UNCHANGED <<outbound, logged>>
            ELSE IF MissingKey(apiKey)
            THEN /\ reqs' = Append(reqs, Request("responded", url, id, FALSE,
                                                 JsonResponse(<<"API key not configured">>, 500)))
                 /\ UNCHANGED <<outbound, logged>>
            ELSE \* fetch(`https://solar.googleapis.com/v1/geoTiff:get?id=${id}&key=${apiKey}`)
                 /\ reqs' = Append(reqs, Request("fetch", url, id, FALSE, NoResponse))
                 /\ outbound' = Append(outbound, [req |-> q, id |-> id, key |-> apiKey,
                                                  accept |-> "image/tiff"])
                 /\ UNCHANGED logged

\* GET is called with request.url = url and runs up to its first await
ProxyReceive(url) ==
  /\ Len(reqs) < MaxReqs
  /\ UNCHANGED <<apiKey, rendererVars, serverVars>>
  /\ LET q == Len(reqs) + 1
         id == SearchParamsGet(url.query, "id")
     IN IF url.kind # "url"
        THEN \* new URL(request.url) throws
             /\ reqs' = Append(reqs, Request(CatchOutcome.pc, url, NoId, TRUE, CatchOutcome.response))
             /\ logged' = Append(logged, <<"Error in getFluxData API route:", "error">>)
             /\ UNCHANGED outbound
        ELSE IF MissingId(id)
        THEN /\ reqs' = Append(reqs, Request("responded", url, id, FALSE,
                                             JsonResponse(<<"Missing id parameter">>, 400)))
             /\ UNCHANGED <<outbound, logged>>
        ELSE IF MissingKey(apiKey)
        THEN /\ reqs' = Append(reqs, Request("responded", url, id, FALSE,
                                             JsonResponse(<<"API key not configured">>, 500)))
             /\ UNCHANGED <<outbound, logged>>
        ELSE \* fetch(`https://solar.googleapis.com/v1/geoTiff:get?id=${id}&key=${apiKey}`)
             /\ reqs' = Append(reqs, Request("fetch", url, id, FALSE, NoResponse))
             /\ outbound' = Append(outbound, [req |-> q, id |-> id, key |-> apiKey,
                                              accept |-> "image/tiff"])
             /\ UNCHANGED logged

\* await fetch(...) resolves with the upstream status
ProxyFetchResolve(q, status) ==
  /\ q \in DOMAIN reqs
  /\ reqs[q].pc = "fetch"
  /\ reqs' = [reqs EXCEPT ![q].upstreamStatus = status,
                          ![q].pc = IF Ok(status) THEN "arrayBuffer" ELSE "text"]
  /\ UNCHANGED <<apiKey, outbound, logged, rendererVars, serverVars>>

\* await response.text() resolves: the error is logged and the status relayed
ProxyTextResolve(q, errorText) ==
  /\ q \in DOMAIN reqs
  /\ reqs[q].pc = "text"
  /\ reqs' = [reqs EXCEPT ![q].pc = "responded",
                          ![q].upstreamBody = <<errorText>>,
                          ![q].response = UpstreamErrorResponse(reqs[q].upstreamStatus)]
  /\ logged' = Append(logged, <<"Error fetching TIFF:", errorText>>)
  /\ UNCHANGED <<apiKey, outbound, rendererVars, serverVars>>

\* await response.arrayBuffer() resolves: the bytes are returned
ProxyArrayBufferResolve(q, tiffData) ==
  /\ q \in DOMAIN reqs
  /\ reqs[q].pc = "arrayBuffer"
  /\ reqs' = [reqs EXCEPT ![q].pc = "responded",
                          ![q].upstreamBody = tiffData,
                          ![q].response = TiffResponse(tiffData)]
  /\ UNCHANGED <<apiKey, outbound, logged, rendererVars, serverVars>>

\* one of the awaits (the fetch, or the read of the body) rejects
ProxyAwaitReject(q) ==
  /\ q \in DOMAIN reqs
  /\ reqs[q].pc \in {"fetch", "text", "arrayBuffer"}
  /\ ProxyCatch(q)
  /\ UNCHANGED <<apiKey, outbound, rendererVars, serverVars>>

InitProxy ==
  /\ InitRenderer
  /\ InitServerIdle
  /\ apiKey \in Keys
  /\ reqs = <<>>
  /\ outbound = <<>>
  /\ logged = <<>>

NextProxy ==
  \/ \E url \in ProxyUrls : ProxyReceive(url)
  \/ \E q \in DOMAIN reqs, status \in UpstreamStatuses : ProxyFetchResolve(q, status)
  \/ \E q \in DOMAIN reqs, errorText \in ErrorTexts : ProxyTextResolve(q, errorText)
  \/ \E q \in DOMAIN reqs, tiffData \in Bodies : ProxyArrayBufferResolve(q, tiffData)
  \/ \E q \in DOMAIN reqs : ProxyAwaitReject(q)

SpecProxy == InitProxy /\ [][NextProxy]_vars

(***************************************************************************)
(* server.js: strings and numbers.  A string is the sequence of its         *)
(* characters; Undefined stands for a property that is missing.             *)
(***************************************************************************)
Undefined == <<"<undefined>">>
\* a string used as a condition: undefined and "" are falsy
Truthy(s) == s # Undefined /\ s # <<>>
\* null, for a variable that holds a number or null
NullAmount == [k |-> "null", n |-> 0, d |-> 1]

DigitOf(c) ==
  CASE c = "0" -> 0 [] c = "1" -> 1 [] c = "2" -> 2 [] c = "3" -> 3 [] c = "4" -> 4
    [] c = "5" -> 5 [] c = "6" -> 6 [] c = "7" -> 7 [] c = "8" -> 8 [] c = "9" -> 9
    [] OTHER -> -1
\* the digits of s from position i on, read as a decimal number after acc
RECURSIVE ScanDigits(_, _, _)
ScanDigits(s, i, acc) ==
  IF i > Len(s) \/ DigitOf(s[i]) < 0 THEN [value |-> acc, next |-> i]
  ELSE ScanDigits(s, i + 1, 10 * acc + DigitOf(s[i]))
RECURSIVE Pow10(_)
Pow10(e) == IF e = 0 THEN 1 ELSE 10 * Pow10(e - 1)

\* parseInt(s) for an unsigned s: the leading digits, NaN when there are none
ParseInt(s) ==
  LET int == ScanDigits(s, 1, 0)
  IN IF int.next = 1 THEN NaN ELSE Num(int.value)

\* parseFloat(s) for an unsigned s without exponent: digits, and digits
\* after a point; NaN when there is no digit
ParseFloat(s) ==
  LET int == ScanDigits(s, 1, 0)
      point == int.next <= Len(s) /\ s[int.next] = "."
      frac == IF point THEN ScanDigits(s, int.next + 1, 0)
              ELSE [value |-> 0, next |-> int.next + 1]
      places == frac.next - int.next - 1
  IN IF int.next = 1 /\ places = 0 THEN NaN
     ELSE Rat(int.value * Pow10(places) + frac.value, Pow10(places))

\* Math.abs(x)
MathAbs(x) ==
  CASE IsNaN(x) -> NaN
    [] IsFin(x) -> Rat(IF x.n < 0 THEN -x.n ELSE x.n, x.d)
    [] OTHER -> PInf

(***************************************************************************)
(* server.js: processSolarApiResponse, the choice of the financial          *)
(* analysis.  An analysis is read for its monthlyBill.units and for which   *)
(* of its three savings objects are present.                                *)
(***************************************************************************)
UnitsValues == {Undefined, <<"1">>, <<"3">>, <<"1", "2">>}
OptionSets == {{}, {"cashPurchaseSavings"},
               {"cashPurchaseSavings", "financedPurchaseSavings", "leasingSavings"}}
Analysis(units, options) == [units |-> units, options |-> options]
Analyses == {Analysis(u, o) : u \in UnitsValues, o \in OptionSets}
AnalysisLists == UNION {[1 .. n -> Analyses] : n \in 0 .. MaxAnalyses}

\* response.data of buildingInsights, or null (callGoogleSolarApi caught an error)
NullResponse == [kind |-> "null", financialAnalyses |-> <<>>]
NoSolarPotential == [kind |-> "noSolarPotential", financialAnalyses |-> <<>>]
Insights(analyses) == [kind |-> "data", financialAnalyses |-> analyses]

\* a variant of IsCloser: an equal difference replaces the match
IsCloser_OrEqual(difference, smallestDifference) == ~Lt(smallestDifference, difference)

\* if (difference < smallestDifference)
IsCloser(difference, smallestDifference) == Lt(difference, smallestDifference)

\* let financialAnalysis = null; let closestBillAmount = null;
\* let smallestDifference = Infinity  (an analysis is named by its index)
NoMatch ==
  [financialAnalysis |-> 0, closestBillAmount |-> NullAmount, smallestDifference |-> PInf]

\* for (const analysis of financialAnalyses), from analysis i on
RECURSIVE ClosestScan(_, _, _, _)
ClosestScan(analyses, i, userMonthlyBill, best) ==
  IF i > Len(analyses) THEN best
  ELSE LET analysis == analyses[i]
           billAmount == ParseInt(analysis.units)
           difference == MathAbs(Sub(billAmount, userMonthlyBill))
       IN IF Truthy(analysis.units) /\ IsCloser(difference, best.smallestDifference)
          THEN ClosestScan(analyses, i + 1, userMonthlyBill,
                           [financialAnalysis |-> i, closestBillAmount |-> billAmount,
                            smallestDifference |-> difference])
          ELSE ClosestScan(analyses, i + 1, userMonthlyBill, best)

\* financialAnalyses.find(test): the first analysis passing the test, or 0
\* passing is the set of the indices whose analysis passes the test
Find(analyses, passing) ==
  IF passing = {} THEN 0 ELSE CHOOSE i \in passing : \A j \in passing : i <= j
HasAllOptions(analysis) ==
  {"cashPurchaseSavings", "financedPurchaseSavings", "leasingSavings"} \subseteq analysis.options
HasAnyOption(analysis) == analysis.options # {}

\* the analysis chosen: the closest by bill, else the first with all three
\* options, else the first with any
SelectAnalysis(analyses, userMonthlyBill) ==
  LET best == ClosestScan(analyses, 1, userMonthlyBill, NoMatch)
      complete == Find(analyses, {i \in DOMAIN analyses : HasAllOptions(analyses[i])})
  IN IF best.financialAnalysis # 0 THEN best
     ELSE IF complete # 0 THEN [best EXCEPT !.financialAnalysis = complete]
     ELSE [best EXCEPT !.financialAnalysis = Find(analyses, {i \in DOMAIN analyses : HasAnyOption(analyses[i])})]

NoBillInfo == [userMonthlyBill |-> NullAmount, closestAnalyzedBill |-> NullAmount]
NoData ==
  [error |-> Null, financialAnalysis |-> 0, financingOptions |-> {}, electricityBillInfo |-> NoBillInfo]

\* processSolarApiResponse(apiResponse, userMonthlyBill): what it returns
processSolarApiResponse(apiResponse, userMonthlyBill) ==
  IF apiResponse.kind # "data"
  THEN [NoData EXCEPT !.error = <<"Invalid or missing solar potential data in API response">>]
  ELSE LET chosen == SelectAnalysis(apiResponse.financialAnalyses, userMonthlyBill)
       IN IF chosen.financialAnalysis = 0
          THEN [NoData EXCEPT !.financingOptions = {"error"}]
          ELSE [error |-> Null,
                financialAnalysis |-> chosen.financialAnalysis,
                financingOptions |->
                  apiResponse.financialAnalyses[chosen.financialAnalysis].options,
                electricityBillInfo |->
                  [userMonthlyBill |-> userMonthlyBill,
                   closestAnalyzedBill |-> chosen.closestBillAmount]]

(***************************************************************************)
(* server.js: the handler of POST /, in its three variants: "solar" (the    *)
(* building insights alone), "crm" (with the PDF report and HubSpot) and    *)
(* "layers" (with the data layers fetched in parallel).                     *)
(***************************************************************************)
\* values of process.env.GOOGLE_API_KEY
GoogleKeys == {NoId, "G1"}
\* req.body: whether userInfo, location and propertyInfo are all there,
\* whether location has both coordinates, and propertyInfo.monthlyElectricityBill
Body(complete, coordinates, bill) ==
  [complete |-> complete, coordinates |-> coordinates, monthlyElectricityBill |-> bill]
RawBills == {Undefined, <<>>, <<"0">>, <<"2">>, <<"2", ".", "5">>, <<"a", "b", "c">>}
RequestBodies ==
  {Body(FALSE, FALSE, Undefined), Body(TRUE, FALSE, <<"2">>)}
    \cup {Body(TRUE, TRUE, bill) : bill \in RawBills}

\* propertyInfo?.monthlyElectricityBill ? parseFloat(...) : 0
MonthlyBill(raw) == IF Truthy(raw) THEN ParseFloat(raw) ELSE Num(0)

NoHubspot == [contactId |-> 0, fileId |-> 0, error |-> Null]
\* what res.status(...).json(...) sends; status 0: nothing sent yet
NoPostResponse ==
  [status |-> 0, error |-> Null, data |-> NoData, hubspot |-> NoHubspot, dataLayers |-> "absent"]
ErrorResponse(status, message) ==
  [NoPostResponse EXCEPT !.status = status, !.error = message]

\* the checks of the handler before its first await: the response they end
\* in, or NoPostResponse when all pass
Validate(body) ==
  IF ~body.complete
  THEN ErrorResponse(400, <<"Missing required data. Please ensure userInfo, location, and propertyInfo are provided.">>)
  ELSE IF ~body.coordinates
  THEN ErrorResponse(400, <<"Missing location coordinates. Please ensure latitude and longitude are provided.">>)
  ELSE IF IsNaN(MonthlyBill(body.monthlyElectricityBill))
  THEN ErrorResponse(400, <<"Invalid monthly electricity bill amount">>)
  ELSE IF Falsy(googleApiKey)
  THEN ErrorResponse(500, <<"Google API key is not configured">>)
  ELSE NoPostResponse

Pending == [kind |-> "pending", financialAnalyses |-> <<>>]
\* a call of the handler: its place, its input, the outcome of its upstream
\* calls, the report file and the HubSpot ids it holds, and its response
Post(variant, pc, body, response) ==
  [variant |-> variant, pc |-> pc, body |-> body,
   monthlyElectricityBill |-> MonthlyBill(body.monthlyElectricityBill),
   buildingInsightsResponse |-> Pending,
   dataLayersResponse |-> IF variant = "layers" /\ pc # "responded" THEN "pending" ELSE "none",
   pdfFilePath |-> 0, contactId |-> 0, fileId |-> 0, failedStep |-> "",
   response |-> response]

\* the handler is called with req.body = body and runs up to its first await
PostReceive(variant, body, limit) ==
  /\ Len(posts) < limit
  /\ posts' = Append(posts,
                     IF Validate(body) # NoPostResponse
                     THEN Post(variant, "responded", body, Validate(body))
                     ELSE Post(variant, "insights", body, NoPostResponse))
  /\ UNCHANGED <<googleApiKey, tmpdir, rendererVars, proxyVars>>

\* const response = { ...processedData, userInfo, location, propertyInfo }
SolarData(q, apiResponse) ==
  [NoPostResponse EXCEPT
     !.status = 200,
     !.data = processSolarApiResponse(apiResponse, posts[q].monthlyElectricityBill),
     !.error = processSolarApiResponse(apiResponse, posts[q].monthlyElectricityBill).error]
InsightsFailed ==
  ErrorResponse(500, <<"Failed to retrieve data from Google Solar API">>)

\* "solar": await callGoogleSolarApi(...) resolves, with the data or with
\* null; the rest of the handler runs to its end
SolarRespond(q, apiResponse) ==
  /\ posts' = [posts EXCEPT ![q].pc = "responded",
                            ![q].buildingInsightsResponse = apiResponse,
                            ![q].response = IF apiResponse.kind = "null" THEN InsightsFailed
                                            ELSE SolarData(q, apiResponse)]
  /\ UNCHANGED <<googleApiKey, tmpdir, rendererVars, proxyVars>>
SolarInsightsResolve(q, pool) ==
  /\ q \in DOMAIN posts
  /\ posts[q].variant = "solar"
  /\ posts[q].pc = "insights"
  /\ \E apiResponse \in pool : SolarRespond(q, apiResponse)

ApiResponses == {NullResponse, NoSolarPotential} \cup {Insights(a) : a \in AnalysisLists}

InitSolar ==
  /\ InitRenderer
  /\ InitProxyIdle
  /\ googleApiKey \in GoogleKeys
  /\ posts = <<>>
  /\ tmpdir = {}

NextSolar ==
  \/ \E body \in RequestBodies : PostReceive("solar", body, 1)
  \/ \E q \in DOMAIN posts : SolarInsightsResolve(q, ApiResponses)

SpecSolar == InitSolar /\ [][NextSolar]_vars

(***************************************************************************)
(* "crm": after the building insights, the PDF report is written to a file  *)
(* of os.tmpdir() (named here by the call that wrote it), the HubSpot       *)
(* contact is searched, created when not found, and updated, and the file   *)
(* is uploaded and associated with the contact.                             *)
(***************************************************************************)
CrmBodies ==
  {Body(FALSE, FALSE, Undefined), Body(TRUE, TRUE, <<"a", "b", "c">>), Body(TRUE, TRUE, <<"2">>)}
CrmResponses ==
  {NullResponse,
   Insights(<< Analysis(<<"3">>, {"cashPurchaseSavings", "financedPurchaseSavings", "leasingSavings"}) >>)}
\* the awaits of the inner try, in order
HubspotSteps == {"pdf", "search", "create", "update", "upload", "associate"}
\* ids HubSpot gives to the contact and to the file of call q
ContactIdOf(q) == 100 + q
FileIdOf(q) == 200 + q

\* a variant of HubspotFailed: the error fails the request
HubspotFailed_FailsRequest(q) ==
  ErrorResponse(500, <<"An error occurred while processing your request: ", "message">>)

\* catch (hubspotError): responseData.hubspot = { error }; the response is
\* still res.status(200).json(responseData)
HubspotFailed(q) ==
  [SolarData(q, posts[q].buildingInsightsResponse) EXCEPT
     !.hubspot = [NoHubspot EXCEPT !.error = <<"Failed to integrate with HubSpot: ", "message">>]]
\* responseData.hubspot = { contactId, fileId, fileName }
HubspotDone(q) ==
  [SolarData(q, posts[q].buildingInsightsResponse) EXCEPT
     !.hubspot = [contactId |-> posts[q].contactId, fileId |-> posts[q].fileId, error |-> Null]]

\* await callGoogleSolarApi(...) resolves: null ends the request with 500,
\* data is processed and generateSolarPDF is called
CrmInsights(q, apiResponse) ==
  /\ posts' = [posts EXCEPT
                 ![q].buildingInsightsResponse = apiResponse,
                 ![q].pc = IF apiResponse.kind = "null" THEN "responded" ELSE "pdf",
                 ![q].response = IF apiResponse.kind = "null" THEN InsightsFailed
                                 ELSE NoPostResponse]
  /\ UNCHANGED <<googleApiKey, tmpdir, rendererVars, proxyVars>>
CrmInsightsResolve(q, pool) ==
  /\ q \in DOMAIN posts
  /\ posts[q].variant = "crm"
  /\ posts[q].pc = "insights"
  /\ \E apiResponse \in pool : CrmInsights(q, apiResponse)

\* call q of the "crm" variant awaits step pc of the inner try
CrmAt(q, pc) == q \in DOMAIN posts /\ posts[q].variant = "crm" /\ posts[q].pc = pc

\* await generateSolarPDF(responseData) resolves with the path of the file
CrmPdfResolve(q) ==
  /\ CrmAt(q, "pdf")
  /\ tmpdir' = tmpdir \cup {q}
  /\ posts' = [posts EXCEPT ![q].pdfFilePath = q, ![q].pc = "search"]
  /\ UNCHANGED <<googleApiKey, rendererVars, proxyVars>>

\* createOrUpdateHubSpotContact: await searchApi.doSearch(...) resolves
CrmSearchResolve(q, found) ==
  /\ CrmAt(q, "search")
  /\ posts' = [posts EXCEPT ![q].contactId = IF found THEN ContactIdOf(q) ELSE 0,
                            ![q].pc = IF found THEN "update" ELSE "create"]
  /\ UNCHANGED <<googleApiKey, tmpdir, rendererVars, proxyVars>>

\* createOrUpdateHubSpotContact: await basicApi.create(...) resolves
CrmCreateResolve(q) ==
  /\ CrmAt(q, "create")
  /\ posts' = [posts EXCEPT ![q].contactId = ContactIdOf(q), ![q].pc = "update"]
  /\ UNCHANGED <<googleApiKey, tmpdir, rendererVars, proxyVars>>

\* createOrUpdateHubSpotContact: await basicApi.update(...) resolves and the
\* contact id is returned; uploadFileToHubSpot posts the file
CrmUpdateResolve(q) ==
  /\ CrmAt(q, "update")
  /\ posts' = [posts EXCEPT ![q].pc = "upload"]
  /\ UNCHANGED <<googleApiKey, tmpdir, rendererVars, proxyVars>>

\* uploadFileToHubSpot: await axios.post(...) resolves with the file id
CrmUploadResolve(q) ==
  /\ CrmAt(q, "upload")
  /\ posts' = [posts EXCEPT ![q].fileId = FileIdOf(q), ![q].pc = "associate"]
  /\ UNCHANGED <<googleApiKey, tmpdir, rendererVars, proxyVars>>

\* uploadFileToHubSpot: await associationsApi.create(...) resolves; then
\* fs.unlinkSync(pdfFilePath), responseData.hubspot and the response
CrmAssociateResolve(q) ==
  /\ CrmAt(q, "associate")
  /\ tmpdir' = tmpdir \ {posts[q].pdfFilePath}
  /\ posts' = [posts EXCEPT ![q].pc = "responded", ![q].response = HubspotDone(q)]
  /\ UNCHANGED <<googleApiKey, rendererVars, proxyVars>>

\* one of the awaits of the inner try rejects: the catch block and the
\* response.  When generateSolarPDF rejects, the file it opened with
\* fs.createWriteStream may be there (fileLeft) or not
CrmStepReject(q, fileLeft) ==
  /\ q \in DOMAIN posts
  /\ posts[q].variant = "crm"
  /\ posts[q].pc \in HubspotSteps
  /\ tmpdir' = IF posts[q].pc = "pdf" /\ fileLeft THEN tmpdir \cup {q} ELSE tmpdir
  /\ posts' = [posts EXCEPT ![q].pc = "responded",
                            ![q].failedStep = posts[q].pc,
                            ![q].response = HubspotFailed(q)]
  /\ UNCHANGED <<googleApiKey, rendererVars, proxyVars>>

NextCrm ==
  \/ \E body \in CrmBodies : PostReceive("crm", body, MaxReqs)
  \/ \E q \in DOMAIN posts : CrmInsightsResolve(q, CrmResponses)
  \/ \E q \in DOMAIN posts : CrmPdfResolve(q)
  \/ \E q \in DOMAIN posts, found \in BOOLEAN : CrmSearchResolve(q, found)
  \/ \E q \in DOMAIN posts : CrmCreateResolve(q)
  \/ \E q \in DOMAIN posts : CrmUpdateResolve(q)
  \/ \E q \in DOMAIN posts : CrmUploadResolve(q)
  \/ \E q \in DOMAIN posts : CrmAssociateResolve(q)
  \/ \E q \in DOMAIN posts, fileLeft \in BOOLEAN : CrmStepReject(q, fileLeft)

SpecCrm == InitSolar /\ [][NextCrm]_vars

(***************************************************************************)
(* "layers": callGoogleSolarApi and getDataLayers are both called and the   *)
(* handler awaits Promise.all of the two.  callGoogleSolarApi resolves with *)
(* null when its request fails; getDataLayers logs and throws again.        *)
(***************************************************************************)
LayersResponses == CrmResponses
\* response.data of dataLayers:get: an object with the fields, or nothing
LayersBodies == {"data", "undefined"}

\* the handler after Promise.all resolved, lines 673-725
LayersData(q, buildingInsightsResponse, dataLayersResponse) ==
  IF buildingInsightsResponse.kind = "null" THEN InsightsFailed
  ELSE [SolarData(q, buildingInsightsResponse) EXCEPT !.dataLayers = dataLayersResponse]

\* Promise.all rejects with the error of getDataLayers: the outer catch
LayersRejected(q) ==
  ErrorResponse(500, <<"An error occurred while processing your request: ", "message">>)

\* call q of the "layers" variant has started its two upstream calls
LayersCalls(q) ==
  q \in DOMAIN posts /\ posts[q].variant = "layers" /\ posts[q].dataLayersResponse # "none"

\* callGoogleSolarApi settles (it never rejects); Promise.all resolves when
\* getDataLayers has resolved too
LayersInsights(q, apiResponse) ==
  /\ posts' = [posts EXCEPT
       ![q].buildingInsightsResponse = apiResponse,
       ![q].pc = IF posts[q].dataLayersResponse \in LayersBodies THEN "responded" ELSE posts[q].pc,
       ![q].response = IF posts[q].dataLayersResponse \in LayersBodies
                       THEN LayersData(q, apiResponse, posts[q].dataLayersResponse)
                       ELSE posts[q].response]
  /\ UNCHANGED <<googleApiKey, tmpdir, rendererVars, proxyVars>>
LayersInsightsResolve(q, pool) ==
  /\ LayersCalls(q)
  /\ posts[q].buildingInsightsResponse = Pending
  /\ \E apiResponse \in pool : LayersInsights(q, apiResponse)

\* getDataLayers resolves; Promise.all resolves when callGoogleSolarApi has
\* settled too
LayersDataResolve(q, dataLayersResponse) ==
  /\ LayersCalls(q)
  /\ posts[q].dataLayersResponse = "pending"
  /\ posts' = [posts EXCEPT
       ![q].dataLayersResponse = dataLayersResponse,
       ![q].pc = IF posts[q].buildingInsightsResponse # Pending THEN "responded" ELSE posts[q].pc,
       ![q].response = IF posts[q].buildingInsightsResponse # Pending
                       THEN LayersData(q, posts[q].buildingInsightsResponse, dataLayersResponse)
                       ELSE posts[q].response]
  /\ UNCHANGED <<googleApiKey, tmpdir, rendererVars, proxyVars>>

\* getDataLayers rejects: Promise.all rejects at once, whether or not
\* callGoogleSolarApi has settled
LayersDataReject(q) ==
  /\ LayersCalls(q)
  /\ posts[q].dataLayersResponse = "pending"
  /\ posts' = [posts EXCEPT ![q].dataLayersResponse = "failed",
                            ![q].failedStep = "dataLayers",
                            ![q].pc = "responded",
                            ![q].response = LayersRejected(q)]
  /\ UNCHANGED <<googleApiKey, tmpdir, rendererVars, proxyVars>>

NextLayers ==
  \/ \E body \in CrmBodies : PostReceive("layers", body, MaxReqs)
  \/ \E q \in DOMAIN posts : LayersInsightsResolve(q, LayersResponses)
  \/ \E q \in DOMAIN posts, d \in LayersBodies : LayersDataResolve(q, d)
  \/ \E q \in DOMAIN posts : LayersDataReject(q)

SpecLayers == InitSolar /\ [][NextLayers]_vars

(***************************************************************************)
(* Vocabulary of the claims about the painted surface.  The samples of a    *)
(* raster are read here as integers, independently of the operators above.  *)
(***************************************************************************)
Positive(v) == v.k = "fin" /\ v.n > 0
NonPositive(v) == v.k = "fin" /\ v.n <= 0
\* the values of the samples > 0 of a sequence of samples
PositiveValues(samples) ==
  {samples[i].n : i \in {j \in DOMAIN samples : Positive(samples[j])}}
SetMin(S) == CHOOSE x \in S : \A y \in S : x <= y
SetMax(S) == CHOOSE x \in S : \A y \in S : x >= y
\* the RGBA quadruple of pixel i (from 1, row-major) of a painted canvas
Pixel(c, i) ==
  <<c.data[4 * (i - 1) + 1], c.data[4 * (i - 1) + 2],
    c.data[4 * (i - 1) + 3], c.data[4 * (i - 1) + 4]>>
Rgb(px) == <<px[1], px[2], px[3]>>
\* render r ran to its end and painted its raster
Succeeded(r) == renders[r].pc = "done"
\* x = k within 1
Near(x, k) == x - k \in {-1, 0, 1}
\* the nearest integer to a / b (b > 0), halves upwards
RoundDiv(a, b) == (2 * a + b) \div (2 * b)

\* C1: after a successful render of a raster with at least one sample > 0,
\* every pixel whose sample is <= 0 has alpha 0 and every pixel whose sample
\* is > 0 has alpha 255.
C1_AlphaFollowsSample ==
  \A r \in DOMAIN renders :
    LET samples == renders[r].raster.samples
    IN (Succeeded(r) /\ PositiveValues(samples) # {}) =>
         \A i \in DOMAIN samples :
           /\ NonPositive(samples[i]) => Pixel(canvas, i)[4] = 0
           /\ Positive(samples[i]) => Pixel(canvas, i)[4] = 255

\* a successful render of a raster holding a sample > 0 and a sample <= 0
C1_Witness ==
  \E r \in DOMAIN renders :
    LET samples == renders[r].raster.samples
    IN /\ Succeeded(r)
       /\ \E i, j \in DOMAIN samples :
            /\ Positive(samples[i]) /\ Pixel(canvas, i)[4] = 255
            /\ NonPositive(samples[j]) /\ Pixel(canvas, j)[4] = 0

\* the colours the claim C2 gives to the samples equal to min, to max and to
\* their midpoint, for the rasters `covered`
EndpointColours(covered) ==
  \A r \in DOMAIN renders :
    LET samples == renders[r].raster.samples
        pos == PositiveValues(samples)
        min == SetMin(pos)
        max == SetMax(pos)
    IN (Succeeded(r) /\ pos # {} /\ covered[pos]) =>
         \A i \in DOMAIN samples :
           Positive(samples[i]) =>
             /\ samples[i].n = max => Pixel(canvas, i) = <<255, 0, 0, 255>>
             /\ samples[i].n = min => Pixel(canvas, i) = <<0, 0, 255, 255>>
             /\ 2 * samples[i].n = min + max =>
                  /\ Near(Pixel(canvas, i)[1], 255)
                  /\ Near(Pixel(canvas, i)[2], 255)
                  /\ Near(Pixel(canvas, i)[3], 0)

\* C2 as stated: for every raster with at least one sample > 0, the sample
\* equal to max is painted (255,0,0), the sample equal to min (0,0,255) and a
\* sample at the midpoint (255,255,0) within 1 per channel.
C2_Original == EndpointColours([pos \in SUBSET (1 .. MaxVal) |-> TRUE])

\* C2, amended: the same for every raster whose samples > 0 take at least two
\* values (min < max); with a single value min = max is painted (255,0,0).
C2_EndpointColours ==
  /\ EndpointColours([pos \in SUBSET (1 .. MaxVal) |-> Cardinality(pos) >= 2])
  /\ \A r \in DOMAIN renders :
       LET samples == renders[r].raster.samples
       IN (Succeeded(r) /\ Cardinality(PositiveValues(samples)) = 1) =>
            \A i \in DOMAIN samples :
              Positive(samples[i]) => Pixel(canvas, i) = <<255, 0, 0, 255>>

\* a successful render of a raster that holds its min, its max and their
\* midpoint, painted blue, red and yellow
C2_Witness ==
  \E r \in DOMAIN renders :
    LET samples == renders[r].raster.samples
    IN /\ Succeeded(r)
       /\ \E i, j, k \in DOMAIN samples :
            /\ Positive(samples[i]) /\ Positive(samples[j]) /\ Positive(samples[k])
            /\ samples[i].n < samples[k].n /\ samples[k].n < samples[j].n
            /\ 2 * samples[k].n = samples[i].n + samples[j].n
            /\ Pixel(canvas, i) = <<0, 0, 255, 255>>
            /\ Pixel(canvas, j) = <<255, 0, 0, 255>>
            /\ Pixel(canvas, k) = <<255, 255, 0, 255>>

\* the two-segment ramp of normalized = n / d (0 <= n <= d, d > 0), in
\* integer arithmetic: below one half t = 2n/d, otherwise t = (2n - d)/d
Ramp(n, d) ==
  IF 2 * n < d
  THEN <<RoundDiv(255 * 2 * n, d), RoundDiv(255 * 2 * n, d), RoundDiv(255 * (d - 2 * n), d)>>
  ELSE <<255, RoundDiv(255 * (2 * d - 2 * n), d), 0>>

\* C3: for every sample v > 0 of a raster with min < max, getColor returns
\* the two-segment ramp of (v - min) / (max - min), and that is the colour
\* painted; for v <= 0 it returns (0,0,0).
C3_TwoSegmentRamp ==
  \A r \in DOMAIN renders :
    LET samples == renders[r].raster.samples
        pos == PositiveValues(samples)
        min == SetMin(pos)
        max == SetMax(pos)
    IN (Succeeded(r) /\ Cardinality(pos) >= 2) =>
         \A i \in DOMAIN samples :
           LET colour == getColor(samples[i], Num(min), Num(max))
           IN /\ Positive(samples[i]) =>
                   /\ \A c \in 1 .. 3 : IsFin(colour[c]) /\ colour[c].d = 1
                   /\ <<colour[1].n, colour[2].n, colour[3].n>> = Ramp(samples[i].n - min, max - min)
                   /\ Rgb(Pixel(canvas, i)) = Ramp(samples[i].n - min, max - min)
              /\ NonPositive(samples[i]) =>
                   /\ colour = <<Num(0), Num(0), Num(0)>>
                   /\ Rgb(Pixel(canvas, i)) = <<0, 0, 0>>

\* a successful render with a sample a quarter of the way from min to max,
\* painted round(127.5) = 128 in every channel, and a sample <= 0
C3_Witness ==
  \E r \in DOMAIN renders :
    LET samples == renders[r].raster.samples
        pos == PositiveValues(samples)
    IN /\ Succeeded(r)
       /\ Cardinality(pos) >= 2
       /\ \E i \in DOMAIN samples :
            /\ Positive(samples[i])
            /\ 4 * (samples[i].n - SetMin(pos)) = SetMax(pos) - SetMin(pos)
            /\ Pixel(canvas, i) = <<128, 128, 128, 255>>

\* render r decoded a raster all of whose samples are <= 0
AllNoData(r) ==
  LET samples == renders[r].raster.samples
  IN /\ renders[r].raster # NoRaster
     /\ \A i \in DOMAIN samples : NonPositive(samples[i])

C5_SingleValueRaster ==
  \A r \in DOMAIN renders :
    LET samples == renders[r].raster.samples
    IN (Succeeded(r) /\ Cardinality(PositiveValues(samples)) = 1) =>
         /\ \A j \in DOMAIN canvas.data : canvas.data[j] \in 0 .. 255
         /\ \A i \in DOMAIN samples :
              /\ NonPositive(samples[i]) => Pixel(canvas, i) = <<0, 0, 0, 0>>
              /\ Positive(samples[i]) => Pixel(canvas, i)[4] = 255
         /\ \A i, j \in DOMAIN samples :
              (Positive(samples[i]) /\ Positive(samples[j])) =>
                Pixel(canvas, i) = Pixel(canvas, j)

\* a successful render of a 3 x 1 raster [v <= 0, w, w] with w > 0
C5_Witness ==
  \E r \in DOMAIN renders :
    LET raster == renders[r].raster
    IN /\ Succeeded(r)
       /\ raster.width = 3 /\ raster.height = 1
       /\ NonPositive(raster.samples[1])
       /\ Positive(raster.samples[2])
       /\ raster.samples[3] = raster.samples[2]
       /\ Pixel(canvas, 1) = <<0, 0, 0, 0>>
       /\ Pixel(canvas, 2) = Pixel(canvas, 3)

(***************************************************************************)
(* Vocabulary of the claims about the proxy.                                *)
(***************************************************************************)
\* the value of the id parameter of a parsed request URL, read off its query:
\* "absent" when no pair is named id
IdParameter(url) ==
  LET named == {i \in DOMAIN url.query : url.query[i][1] = "id"}
  IN IF named = {} THEN "absent" ELSE url.query[SetMin(named)][2]
IdMissingOrEmpty(url) == url.kind = "url" /\ IdParameter(url) \in {"absent", ""}
IdGiven(url) == url.kind = "url" /\ IdParameter(url) \notin {"absent", ""}
KeyConfigured == apiKey \in {"K1", "K2"}
\* the response is a JSON {error} body with this status
IsJsonError(response, status) ==
  /\ response.status = status
  /\ response.contentType = "application/json"
  /\ response.error # Null
  /\ response.body = NoBody
\* the upstream requests issued for request q
OutboundOf(q) == {k \in DOMAIN outbound : outbound[k].req = q}

\* C6: a request whose id parameter is missing or empty is answered 400 with
\* a JSON {error} body (InvalidRequest).
C6_MissingIdIs400 ==
  \A q \in DOMAIN reqs :
    IdMissingOrEmpty(reqs[q].url) =>
      /\ reqs[q].pc = "responded"
      /\ IsJsonError(reqs[q].response, 400)
      /\ reqs[q].response.error = <<"Missing id parameter">>

\* a request with an empty id, received while the key is configured, answered 400
C6_Witness ==
  \E q \in DOMAIN reqs :
    /\ KeyConfigured
    /\ reqs[q].url.kind = "url"
    /\ IdParameter(reqs[q].url) = ""
    /\ reqs[q].response.status = 400

\* C7 as stated: without a configured credential a request is answered 500
\* (ConfigurationError), whether its id is valid, empty or missing.
C7_Original ==
  \A q \in DOMAIN reqs :
    (~KeyConfigured /\ reqs[q].url.kind = "url") =>
      /\ reqs[q].pc = "responded"
      /\ IsJsonError(reqs[q].response, 500)

\* C7, amended: without a configured credential a request with a non-empty id
\* is answered 500 with the JSON body {error: 'API key not configured'}; a
\* request whose id is empty or missing is answered 400 (the id is checked
\* first).
C7_NoKeyIs500WhenIdGiven ==
  \A q \in DOMAIN reqs :
    ~KeyConfigured =>
      /\ IdGiven(reqs[q].url) =>
           /\ reqs[q].pc = "responded"
           /\ IsJsonError(reqs[q].response, 500)
           /\ reqs[q].response.error = <<"API key not configured">>
      /\ IdMissingOrEmpty(reqs[q].url) =>
           /\ reqs[q].pc = "responded"
           /\ IsJsonError(reqs[q].response, 400)

\* with an empty key, a request with an id answered 500 and one without
\* answered 400
C7_Witness ==
  /\ apiKey = ""
  /\ \E q, p \in DOMAIN reqs :
       /\ IdGiven(reqs[q].url)
       /\ reqs[q].response.status = 500
       /\ IdMissingOrEmpty(reqs[p].url)
       /\ reqs[p].response.status = 400

\* the upstream replied to request q with a non-success status and the
\* handler has returned
UpstreamFailed(q) ==
  /\ reqs[q].upstreamStatus # 0
  /\ reqs[q].upstreamStatus \notin 200 .. 299
  /\ reqs[q].pc # "text"

\* C8 as stated: when the upstream replies with a non-success status s, the
\* proxy responds with status s and a JSON {error} body, having issued exactly
\* one upstream request.
C8_Original ==
  \A q \in DOMAIN reqs :
    UpstreamFailed(q) =>
      /\ IsJsonError(reqs[q].response, reqs[q].upstreamStatus)
      /\ Cardinality(OutboundOf(q)) = 1

\* C8, amended: when the upstream replies with a non-success status s, the
\* proxy has issued exactly one upstream request and, once it has read the
\* upstream error body, responds with status s and the JSON body
\* {error: 'Failed to fetch TIFF: s'}; when reading that body fails it
\* responds 500 {error: 'Internal server error'} instead.
C8_UpstreamStatusRelayed ==
  \A q \in DOMAIN reqs :
    UpstreamFailed(q) =>
      /\ Cardinality(OutboundOf(q)) = 1
      /\ reqs[q].pc = "responded"
      /\ ~reqs[q].threw =>
           /\ IsJsonError(reqs[q].response, reqs[q].upstreamStatus)
           /\ reqs[q].response.error = <<"Failed to fetch TIFF: ", reqs[q].upstreamStatus>>
      /\ reqs[q].threw =>
           /\ IsJsonError(reqs[q].response, 500)
           /\ reqs[q].response.error = <<"Internal server error">>

\* an upstream 404 relayed as 404 after its body was read
C8_Witness ==
  \E q \in DOMAIN reqs :
    /\ reqs[q].upstreamStatus = 404
    /\ reqs[q].upstreamBody # NoBody
    /\ reqs[q].response.status = 404
    /\ Cardinality(OutboundOf(q)) = 1

\* C9: when the upstream call succeeds (a 2xx reply whose body was read), the
\* response carries exactly the upstream bytes, with status 200, Content-Type
\* image/tiff and Content-Disposition attachment; filename="solar-flux-data.tiff".
C9_BytesRelayed ==
  \A q \in DOMAIN reqs :
    (reqs[q].upstreamStatus \in 200 .. 299 /\ reqs[q].upstreamBody # NoBody) =>
      /\ reqs[q].pc = "responded"
      /\ reqs[q].response.status = 200
      /\ reqs[q].response.contentType = "image/tiff"
      /\ reqs[q].response.contentDisposition = "attachment; filename=\"solar-flux-data.tiff\""
      /\ reqs[q].response.body = reqs[q].upstreamBody
      /\ reqs[q].response.error = Null

\* two requests answered with the different bodies the upstream sent them
C9_Witness ==
  \E q, p \in DOMAIN reqs :
    /\ reqs[q].upstreamStatus = 200
    /\ reqs[p].upstreamStatus = 200
    /\ reqs[q].response.body = <<73, 73, 42, 0>>
    /\ reqs[p].response.body = <<77, 77, 0, 42>>

\* C10: an exception raised while a request is handled (URL parsing, the
\* outbound fetch, reading a body) ends in 500 with the JSON body
\* {error: 'Internal server error'}; no exception escapes the handler.
C10_ExceptionsAre500 ==
  \A q \in DOMAIN reqs :
    /\ reqs[q].pc # "escaped"
    /\ reqs[q].threw =>
         /\ reqs[q].pc = "responded"
         /\ IsJsonError(reqs[q].response, 500)
         /\ reqs[q].response.error = <<"Internal server error">>

\* an exception at each of the three places: the URL, the fetch, a body read
C10_Witness ==
  \E q, p \in DOMAIN reqs :
    /\ reqs[q].threw /\ reqs[q].url.kind = "invalid"
    /\ reqs[q].response.status = 500
    /\ reqs[p].threw /\ reqs[p].upstreamStatus = 200
    /\ reqs[p].response.status = 500

\* what a client may see of request q: a response written from the request's
\* URL, the upstream status, the bytes of a successful upstream reply and
\* whether something was thrown, and from whether a key is configured at all
ClientVisible(q) ==
  LET url == reqs[q].url
      status == reqs[q].upstreamStatus
  IN IF reqs[q].threw THEN JsonResponse(<<"Internal server error">>, 500)
     ELSE IF IdMissingOrEmpty(url) THEN JsonResponse(<<"Missing id parameter">>, 400)
     ELSE IF ~KeyConfigured THEN JsonResponse(<<"API key not configured">>, 500)
     ELSE IF status \in 200 .. 299 THEN TiffResponse(reqs[q].upstreamBody)
     ELSE JsonResponse(<<"Failed to fetch TIFF: ", status>>, status)

\* the requests that carry a non-empty id
WithId == {q \in DOMAIN reqs : IdGiven(reqs[q].url)}

\* C11: the proxy keeps no state and does not cache: with a configured key,
\* N requests carrying a non-empty id (the same id included) cause exactly N
\* upstream requests, one per request and for that request's id, and the
\* response of a request is determined by its own upstream reply: two
\* requests with the same upstream reply have the same response.
C11_OneUpstreamRequestEach ==
  KeyConfigured =>
    /\ Len(outbound) = Cardinality(WithId)
    /\ \A q \in WithId :
         /\ Cardinality(OutboundOf(q)) = 1
         /\ \A k \in OutboundOf(q) : outbound[k].id = IdParameter(reqs[q].url)
    /\ \A q, p \in WithId :
         ( /\ reqs[q].pc = "responded" /\ reqs[p].pc = "responded"
           /\ reqs[q].upstreamStatus = reqs[p].upstreamStatus
           /\ reqs[q].upstreamBody = reqs[p].upstreamBody
           /\ reqs[q].threw = reqs[p].threw )
         => reqs[q].response = reqs[p].response

\* two requests for the same id, each fetched upstream, the first answered
\* with the TIFF and the second with the upstream's 404
C11_Witness ==
  /\ KeyConfigured
  /\ Len(reqs) = 2
  /\ reqs[1].url = reqs[2].url
  /\ IdGiven(reqs[1].url)
  /\ Len(outbound) = 2
  /\ reqs[1].response.status = 200
  /\ reqs[2].response.status = 404

\* C12: no response carries the key or the text of an upstream error body:
\* every response is the one written from the client-visible facts alone
\* (ClientVisible mentions neither the value of the key nor the upstream
\* error text), so two requests that differ only in the upstream error text,
\* or two runs that differ only in the value of the key, get identical
\* responses.
C12_NoSecretInResponse ==
  /\ \A q \in DOMAIN reqs :
       reqs[q].pc = "responded" => reqs[q].response = ClientVisible(q)
  /\ \A q, p \in DOMAIN reqs :
       ( /\ UpstreamFailed(q) /\ UpstreamFailed(p)
         /\ reqs[q].upstreamStatus = reqs[p].upstreamStatus
         /\ reqs[q].threw = reqs[p].threw )
       => reqs[q].response = reqs[p].response

\* two upstream failures with the same status and different error texts,
\* both logged, answered with the same response
C12_Witness ==
  /\ KeyConfigured
  /\ Len(reqs) = 2
  /\ reqs[1].upstreamStatus = 500 /\ reqs[2].upstreamStatus = 500
  /\ reqs[1].upstreamBody = <<"quota exceeded">>
  /\ reqs[2].upstreamBody = <<"not found">>
  /\ reqs[1].response = reqs[2].response
  /\ reqs[1].response.status = 500
  /\ Len(logged) = 2

(***************************************************************************)
(* Claims about the calls of fetchAndRenderTiff and what is displayed.      *)
(***************************************************************************)
\* the requests to /api/getFluxData issued by render r
FetchesOf(r) == {k \in DOMAIN fetches : fetches[k].render = r}
\* render r ended in the catch block
Failed(r) == renders[r].pc = "failed"

Fails(r) ==
  /\ r \in DOMAIN renders'
  /\ renders'[r].pc = "failed"
  /\ r \in DOMAIN renders => renders[r].pc # "failed"

\* C14: a failure at any stage is terminal for its render: in the step in
\* which a render fails the component goes to the error state (a message is
\* set, loading is off) and nothing is painted (the bitmap is as before, or
\* cleared), and a render that has failed takes no further step.
C14_FailureIsTerminal ==
  [][ /\ \A r \in DOMAIN renders' :
           Fails(r) =>
             /\ error' # Null
             /\ ~loading'
             /\ (canvas'.blank \/ canvas'.data = canvas.data)
      /\ \A r \in DOMAIN renders :
           Failed(r) => (renders'[r] = renders[r] /\ FetchesOf(r)' = FetchesOf(r))
    ]_vars

\* one render failed for want of a drawing context after its raster was
\* read, another on a 404 from the proxy; nothing is painted
C14_Witness ==
  /\ Len(renders) = 2
  /\ Failed(1) /\ renders[1].raster # NoRaster
  /\ Failed(2) /\ renders[2].raster = NoRaster
  /\ error = <<"Failed to fetch flux data: ", 404>>
  /\ ~loading
  /\ canvas.blank

\* C15: in every state where the render that completed last ended in error,
\* the error message is shown and no pixel surface is visible (here even in
\* the narrow sense: a displayed canvas that holds painted pixels).
C15_NoSurfaceAfterError ==
  (lastCompleted # 0 /\ Failed(lastCompleted)) =>
    /\ ErrorShown
    /\ ~(CanvasDisplayed /\ ~canvas.blank)

\* the RGBA quadruple computed from sample i of a band: the colour of the
\* sample within the range of the band, and its alpha, stored as bytes
QuadrupleOf(samples, i) ==
  LET range == ComputeRange(samples)
      colour == getColor(samples[i], range.min, range.max)
  IN <<ToUint8Clamp(colour[1]), ToUint8Clamp(colour[2]), ToUint8Clamp(colour[3]),
       ToUint8Clamp(Alpha(samples[i]))>>

\* C16: after a successful render of a raster of width W and height H (with
\* W * H samples) the surface is exactly W x H, holds exactly W * H RGBA
\* quadruples, and the quadruple at position i is the one computed from
\* sample i.
C16_SurfaceMatchesRaster ==
  \A r \in DOMAIN renders :
    LET raster == renders[r].raster
    IN (Succeeded(r) /\ lastCompleted = r) =>
         /\ Len(raster.samples) = raster.width * raster.height
         /\ canvas.width = raster.width
         /\ canvas.height = raster.height
         /\ ~canvas.blank
         /\ Len(canvas.data) = 4 * raster.width * raster.height
         /\ \A i \in 1 .. raster.width * raster.height :
              Pixel(canvas, i) = QuadrupleOf(raster.samples, i)

\* a painted 3 x 1 raster whose three pixels differ from one another
C16_Witness ==
  \E r \in DOMAIN renders :
    /\ Succeeded(r)
    /\ canvas.width = 3 /\ canvas.height = 1
    /\ Len(canvas.data) = 12
    /\ Pixel(canvas, 1) # Pixel(canvas, 2)
    /\ Pixel(canvas, 2) # Pixel(canvas, 3)
    /\ Pixel(canvas, 1) # Pixel(canvas, 3)

\* the surface a raster is painted as, whatever was rendered before
SurfaceOf(raster) ==
  [width |-> raster.width, height |-> raster.height, blank |-> FALSE,
   data |-> [j \in 1 .. 4 * raster.width * raster.height |->
               QuadrupleOf(raster.samples, ((j - 1) \div 4) + 1)[((j - 1) % 4) + 1]]]

\* render r paints in this step
Paints(r) == renders[r].pc # "done" /\ renders'[r].pc = "done"

\* C17: the colour mapping is deterministic and idempotent: the surface a
\* render paints is determined by its raster alone, whatever earlier renders
\* did, and a render of the raster the canvas already shows leaves every
\* byte as it is.
C17_SameRasterSameSurface ==
  [][ \A r \in DOMAIN renders :
        Paints(r) =>
          /\ canvas' = SurfaceOf(renders'[r].raster)
          /\ ( /\ lastCompleted # 0
               /\ Succeeded(lastCompleted)
               /\ renders[lastCompleted].raster = renders'[r].raster )
             => canvas'.data = canvas.data
    ]_vars

\* the same raster rendered twice, from two different URLs
C17_Witness ==
  /\ Len(renders) = 2
  /\ Succeeded(1) /\ Succeeded(2)
  /\ renders[1].url # renders[2].url
  /\ renders[1].raster = renders[2].raster
  /\ canvas = SurfaceOf(renders[1].raster)

\* C18: renders are neither sequenced nor cancelled: the canvas shows the
\* raster of the render that finished last, also when a newer render was
\* started after it; so when the superseded render finishes last, the final
\* surface shows the superseded input.
C18_LastToFinishWins ==
  (lastCompleted # 0 /\ Succeeded(lastCompleted)) =>
    /\ canvas.width = renders[lastCompleted].raster.width
    /\ canvas.height = renders[lastCompleted].raster.height
    /\ \A i \in DOMAIN renders[lastCompleted].raster.samples :
         Pixel(canvas, i) = QuadrupleOf(renders[lastCompleted].raster.samples, i)

\* the render of ?id=a, superseded by the render of ?id=b while in flight,
\* finished after it: the prop names b and the canvas shows the raster of a
C18_Witness ==
  /\ Len(renders) = 2
  /\ renders[1].id = "a" /\ renders[2].id = "b"
  /\ Succeeded(1) /\ Succeeded(2)
  /\ lastCompleted = 1
  /\ annualFluxUrl = renders[2].url
  /\ tiffId = "b"
  /\ canvas.width = ServedRaster("a").width
  /\ canvas.data = FillImageData(ServedRaster("a").samples, 2, 1)
  /\ canvas.data # FillImageData(ServedRaster("b").samples, 1, 2)

\* C19: whenever a render completes successfully and no render is in flight,
\* the component shows the surface, no error message and the legend,
\* whatever earlier renders did.
C19_SuccessShowsNoError ==
  ( /\ lastCompleted # 0
    /\ Succeeded(lastCompleted)
    /\ \A r \in DOMAIN renders : ~InFlight(r) )
  => /\ CanvasDisplayed
     /\ ~ErrorShown
     /\ LegendShown

\* the samples of a band with the samples k and k + 1 exchanged
Exchanged(samples, k) ==
  [i \in DOMAIN samples |->
     IF i = k THEN samples[k + 1] ELSE IF i = k + 1 THEN samples[k] ELSE samples[i]]

\* C20: the range computation returns the minimum and the maximum of the
\* samples > 0, whatever the other samples are and in whatever order the
\* samples are scanned (every order is reached by exchanges of neighbours,
\* and no exchange changes the result); when no sample is > 0 it returns
\* +Infinity and -Infinity.
C20_RangeIsMinMaxOfPositives ==
  \A r \in DOMAIN renders :
    LET samples == renders[r].raster.samples
        pos == PositiveValues(samples)
    IN renders[r].raster # NoRaster =>
         /\ pos # {} => ComputeRange(samples) = [min |-> Num(SetMin(pos)), max |-> Num(SetMax(pos))]
         /\ pos = {} => ComputeRange(samples) = [min |-> PInf, max |-> NInf]
         /\ \A k \in 1 .. Len(samples) - 1 :
              ComputeRange(Exchanged(samples, k)) = ComputeRange(samples)

\* a rendered band with a larger sample before a smaller one and a sample
\* <= 0 between them
C20_Witness ==
  \E r \in DOMAIN renders :
    LET samples == renders[r].raster.samples
    IN /\ Succeeded(r)
       /\ Len(samples) = 3
       /\ Positive(samples[1]) /\ NonPositive(samples[2]) /\ Positive(samples[3])
       /\ samples[1].n > samples[3].n
       /\ ComputeRange(samples) = [min |-> samples[3], max |-> samples[1]]

\* the normalized value getColor computes for sample i of a band
NormalizedOf(samples, i) ==
  LET range == ComputeRange(samples)
  IN Normalized(samples[i], range.min, range.max)
\* x is a number of the interval [0, 1]
InUnitInterval(x) == IsFin(x) /\ Le(Num(0), x) /\ Le(x, Num(1))

\* C21 as stated: for every raster and every sample v > 0 of it, the
\* normalized value (v - min) / (max - min) lies in [0, 1].
C21_Original ==
  \A r \in DOMAIN renders :
    LET samples == renders[r].raster.samples
    IN \A i \in DOMAIN samples :
         Positive(samples[i]) => InUnitInterval(NormalizedOf(samples, i))

\* C21, amended: for every raster whose samples > 0 take at least two values
\* and every sample v > 0 of it, the normalized value is the number
\* (v - min) / (max - min) of [0, 1]; when the samples > 0 all have one value
\* (min = max) the normalized value is 0 / 0 = NaN, which is in no interval.
C21_NormalizedInUnitInterval ==
  \A r \in DOMAIN renders :
    LET samples == renders[r].raster.samples
        pos == PositiveValues(samples)
    IN \A i \in DOMAIN samples :
         Positive(samples[i]) =>
           LET nz == NormalizedOf(samples, i)
           IN /\ Cardinality(pos) >= 2 =>
                   /\ InUnitInterval(nz)
                   /\ nz.n * (SetMax(pos) - SetMin(pos)) = (samples[i].n - SetMin(pos)) * nz.d
              /\ Cardinality(pos) = 1 => IsNaN(nz)

\* a rendered band [1, 2, 5]: normalized 0, 1/4 and 1
C21_Witness ==
  \E r \in DOMAIN renders :
    LET samples == renders[r].raster.samples
    IN /\ Succeeded(r)
       /\ samples = <<Num(1), Num(2), Num(5)>>
       /\ NormalizedOf(samples, 1).n = 0
       /\ 4 * NormalizedOf(samples, 2).n = NormalizedOf(samples, 2).d
       /\ NormalizedOf(samples, 3).n = NormalizedOf(samples, 3).d

\* render r has the bytes of its raster and has not yet run its last part:
\* it waits for the decoder (fromArrayBuffer, getImage or readRasters)
Decoding(r) == renders[r].pc \in {"fromArrayBuffer", "getImage", "readRasters"}
\* the place of render r before and after a step ("none": not yet called)
PcBefore(r) == IF r \in DOMAIN renders THEN renders[r].pc ELSE "none"
PcAfter(r) == renders'[r].pc

\* C22 as stated: acquisition is the only suspension point of a render:
\* between the completion of acquisition and the painting of the surface no
\* step of another render interleaves.
C22_Original ==
  [][ \A r \in DOMAIN renders :
        Decoding(r) =>
          \A p \in DOMAIN renders' : p # r => PcAfter(p) = PcBefore(p)
    ]_vars

\* C22, amended: decode starts only after acquisition has completed (each
\* stage of a render is entered from the stage before it), and the part from
\* the resolution of readRasters to the painting and setLoading(false) runs
\* in one step; but every stage of the decode is awaited as well, so steps
\* of other renders may interleave anywhere before that last part.
C22_StagesInOrder ==
  [][ \A r \in DOMAIN renders' :
        PcAfter(r) # PcBefore(r) =>
          /\ PcAfter(r) = "fetch" => PcBefore(r) = "none"
          /\ PcAfter(r) = "arrayBuffer" => (PcBefore(r) = "fetch" /\ FetchesOf(r) # {})
          /\ PcAfter(r) = "fromArrayBuffer" => PcBefore(r) = "arrayBuffer"
          /\ PcAfter(r) = "getImage" => PcBefore(r) = "fromArrayBuffer"
          /\ PcAfter(r) = "readRasters" => PcBefore(r) = "getImage"
          /\ PcAfter(r) = "done" =>
               /\ PcBefore(r) = "readRasters"
               /\ canvas' = SurfaceOf(renders'[r].raster)
               /\ ~loading'
          /\ \A p \in DOMAIN renders' : p # r => PcAfter(p) = PcBefore(p)
    ]_vars

\* two renders that both have their bytes and both wait for the decoder: one
\* of them took a step while the other was between acquisition and painting
C22_Witness ==
  /\ Len(renders) = 2
  /\ renders[1].pc = "readRasters"
  /\ renders[2].pc = "getImage"

\* C23: an upstream request is issued only for a request with a non-empty id
\* while a key is configured: a request answered 400 for its id or 500 for
\* the missing key has caused no outbound request.
C23_NoFetchWithoutIdAndKey ==
  /\ \A k \in DOMAIN outbound :
       /\ KeyConfigured
       /\ outbound[k].req \in DOMAIN reqs
       /\ IdGiven(reqs[outbound[k].req].url)
       /\ outbound[k].key = apiKey
  /\ \A q \in DOMAIN reqs :
       reqs[q].response.error \in {<<"Missing id parameter">>, <<"API key not configured">>}
         => OutboundOf(q) = {}

\* without a key, one request answered 400 and one answered 500, and nothing
\* sent upstream
C23_Witness ==
  /\ apiKey = NoId
  /\ Len(reqs) = 2
  /\ reqs[1].response = JsonResponse(<<"Missing id parameter">>, 400)
  /\ reqs[2].response = JsonResponse(<<"API key not configured">>, 500)
  /\ outbound = <<>>

\* C24: provided every awaited call eventually settles, every render that is
\* in flight eventually returns, by success or by failure at any stage, and
\* sets loading to false as it does.
C24_LoadingEventuallyOff ==
  \A r \in 1 .. MaxRenders :
    (r \in DOMAIN renders /\ InFlight(r)) ~> (lastCompleted = r /\ ~loading)

\* a render that succeeded and a later one that failed after its fetch, the
\* loading indicator off
C24_Witness ==
  /\ Len(renders) = 2
  /\ Succeeded(1)
  /\ Failed(2)
  /\ Len(fetches) = 2
  /\ lastCompleted = 2
  /\ ~loading

\* C25: whenever at least one render is in flight the loading indicator is
\* shown and the canvas is hidden, also when renders overlap.
C25_LoadingWhileInFlight ==
  (\E r \in DOMAIN renders : InFlight(r)) => (LoadingShown /\ ~CanvasDisplayed)

\* C26: whenever the download control is visible, tiffId is the identifier
\* of the raster whose pixels are painted on the canvas.
C26_DownloadMatchesCanvas ==
  DownloadShown => canvas = SurfaceOf(ServedRaster(tiffId))

(***************************************************************************)
(* Claims about server.js.                                                  *)
(***************************************************************************)
\* the amount of a bill, read off the characters of its units
AmountOf(units) ==
  CASE units = <<"1">> -> 1
    [] units = <<"3">> -> 3
    [] units = <<"1", "2">> -> 12
\* the analyses of a list that carry a monthlyBill.units value
WithBill(analyses) == {i \in DOMAIN analyses : analyses[i].units # Undefined}
\* |amount of analysis i - bill|, times the denominator of the bill
Distance(analyses, i, bill) ==
  LET diff == AmountOf(analyses[i].units) * bill.d - bill.n
  IN IF diff < 0 THEN -diff ELSE diff
\* the earliest of the analyses with a bill that are closest to the bill
Closest(analyses, bill) ==
  CHOOSE i \in WithBill(analyses) :
    \A j \in WithBill(analyses) :
      \/ Distance(analyses, i, bill) < Distance(analyses, j, bill)
      \/ Distance(analyses, i, bill) = Distance(analyses, j, bill) /\ i <= j
\* the first analysis with all three options, else the first with any, else 0
Fallback(analyses) ==
  LET all == {i \in DOMAIN analyses : Cardinality(analyses[i].options) = 3}
      any == {i \in DOMAIN analyses : analyses[i].options # {}}
  IN IF all # {} THEN SetMin(all) ELSE IF any # {} THEN SetMin(any) ELSE 0
\* call q was answered 200 from building insights that hold solarPotential
Processed(q) ==
  /\ posts[q].response.status = 200
  /\ posts[q].buildingInsightsResponse.kind = "data"

\* C27: among the financial analyses that carry a monthlyBill.units value
\* the one whose amount is closest to the user's monthly bill is selected,
\* the earliest on ties, and its amount is reported as closestAnalyzedBill;
\* only when no analysis carries a bill is the first analysis with all three
\* financing options taken, else the first with any.
C27_ClosestBillSelected ==
  \A q \in DOMAIN posts :
    Processed(q) =>
      LET analyses == posts[q].buildingInsightsResponse.financialAnalyses
          bill == posts[q].monthlyElectricityBill
          data == posts[q].response.data
      IN /\ WithBill(analyses) # {} =>
              /\ data.financialAnalysis = Closest(analyses, bill)
              /\ data.electricityBillInfo.closestAnalyzedBill =
                   Num(AmountOf(analyses[Closest(analyses, bill)].units))
              /\ data.electricityBillInfo.userMonthlyBill = bill
         /\ WithBill(analyses) = {} =>
              /\ data.financialAnalysis = Fallback(analyses)
              /\ data.electricityBillInfo.closestAnalyzedBill = NullAmount

\* a bill of 2 and analyses of 12, of 3 and of 1, in this order: the 3 and
\* the 1 are equally close and the 3, which comes first, is selected
C27_Witness ==
  \E q \in DOMAIN posts :
    /\ Processed(q)
    /\ Len(posts[q].buildingInsightsResponse.financialAnalyses) = 3
    /\ posts[q].buildingInsightsResponse.financialAnalyses[1].units = <<"1", "2">>
    /\ posts[q].buildingInsightsResponse.financialAnalyses[2].units = <<"3">>
    /\ posts[q].buildingInsightsResponse.financialAnalyses[3].units = <<"1">>
    /\ posts[q].body.monthlyElectricityBill = <<"2">>
    /\ posts[q].response.data.financialAnalysis = 2
    /\ posts[q].response.data.electricityBillInfo.closestAnalyzedBill = Num(3)

\* call q is a call of the "crm" variant that has sent its response
CrmResponded(q) == posts[q].variant = "crm" /\ posts[q].pc = "responded"

\* C28: in the "crm" variant a failure of a step of the HubSpot integration
\* (the PDF, the contact search, creation or update, the upload or the
\* association) does not fail the request: the response is 200 with the
\* solar data and hubspot.error; and hubspot.contactId and hubspot.fileId
\* are in a response only when every step succeeded.
C28_HubspotFailureIs200 ==
  \A q \in DOMAIN posts :
    /\ (CrmResponded(q) /\ posts[q].failedStep # "") =>
         /\ posts[q].response.status = 200
         /\ posts[q].response.data =
              processSolarApiResponse(posts[q].buildingInsightsResponse,
                                      posts[q].monthlyElectricityBill)
         /\ posts[q].response.hubspot.error # Null
         /\ posts[q].response.hubspot.contactId = 0
         /\ posts[q].response.hubspot.fileId = 0
    /\ (posts[q].response.hubspot.contactId # 0 \/ posts[q].response.hubspot.fileId # 0) =>
         /\ posts[q].failedStep = ""
         /\ posts[q].response.status = 200
         /\ posts[q].response.hubspot = [contactId |-> ContactIdOf(q), fileId |-> FileIdOf(q),
                                         error |-> Null]

\* one request whose association failed after contact and file had their
\* ids, answered 200 with hubspot.error, and one whose steps all succeeded
C28_Witness ==
  /\ Len(posts) = 2
  /\ posts[1].failedStep = "associate"
  /\ posts[1].contactId # 0 /\ posts[1].fileId # 0
  /\ posts[1].response.status = 200
  /\ posts[1].response.hubspot.error # Null
  /\ posts[2].response.hubspot.contactId = ContactIdOf(2)

\* C29: in the "crm" variant the temporary PDF file written by
\* generateSolarPDF is deleted by the time the response is sent, on every
\* path.
C29_TempFileDeleted ==
  \A q \in DOMAIN posts :
    (CrmResponded(q) /\ posts[q].pdfFilePath # 0) => posts[q].pdfFilePath \notin tmpdir

\* C30: in the "layers" variant the two upstream calls are pending together,
\* and a failure of getDataLayers alone does not fail the request: when
\* callGoogleSolarApi gave data, the response is 200 with the solar data and
\* the dataLayers fields undefined.
C30_LayersFailureIs200 ==
  \A q \in DOMAIN posts :
    (/\ posts[q].variant = "layers"
     /\ posts[q].dataLayersResponse = "failed"
     /\ posts[q].buildingInsightsResponse # Pending
     /\ posts[q].buildingInsightsResponse.kind # "null") =>
       /\ posts[q].response.status = 200
       /\ posts[q].response.data =
            processSolarApiResponse(posts[q].buildingInsightsResponse,
                                    posts[q].monthlyElectricityBill)
       /\ posts[q].response.dataLayers = "undefined"

====
